---------------------------- MODULE Spec2Model ----------------------------
(***************************************************************************)
(* Model of app_visages.py: a Streamlit script (main) that is re-executed  *)
(* from top to bottom on every user interaction.  One run checks the       *)
(* cascade file, renders the parameter widgets and the uploader, and, when *)
(* a file is uploaded, decodes it, converts it to gray, calls the cascade  *)
(* detector, draws rectangles and labels, shows the result and offers a    *)
(* JPEG download.                                                          *)
(*                                                                         *)
(* Every state variable is a function of the browser session: Streamlit    *)
(* keeps widget values per session and runs main() once per interaction.   *)
(* An image array is kept at a few sample pixel positions (SamplePoints),  *)
(* each pixel a sequence of channel values in the order the array stores   *)
(* them.  The cascade detector is an external routine: it is modelled as a *)
(* deterministic function of the picture content (the candidates present   *)
(* in the scene with the votes they collect at each scale step) and of the *)
(* two parameters.                                                         *)
(***************************************************************************)
EXTENDS Integers, Sequences, FiniteSets, TLC

\* Number of reruns of the script a session goes through (history bound).
MaxRuns == 3

\* Number of candidate faces in the scene of an uploaded picture.
MaxFaces == 3

\* cv2.rectangle thickness, cv2.putText thickness and vertical label offset,
\* detectMultiScale minSize, JPEG quality: literals of the script.
RectThickness == 3
TextThickness == 2
LabelOffset == 10
MinSize == 30
JpegQuality == 95

Sessions == {1, 2}

None == <<>>
Some(x) == <<x>>
Get(o) == o[1]

-----------------------------------------------------------------------------
(* Python string and integer helpers used on the colour (line 55).         *)

HexLower == <<"0","1","2","3","4","5","6","7","8","9","a","b","c","d","e","f">>
HexUpper == <<"0","1","2","3","4","5","6","7","8","9","A","B","C","D","E","F">>

\* int(c, 16) of one character
HexDigit(c) == CHOOSE d \in 0..15 : HexLower[d + 1] = c \/ HexUpper[d + 1] = c

RECURSIVE int16(_)
\* int(s, 16) of a sequence of hexadecimal characters
int16(s) ==
  IF s = <<>> THEN 0
  ELSE 16 * int16(SubSeq(s, 1, Len(s) - 1)) + HexDigit(s[Len(s)])

RECURSIVE lstrip(_, _)
\* s.lstrip(ch): drops every leading ch
lstrip(s, ch) ==
  IF s # <<>> /\ s[1] = ch THEN lstrip(Tail(s), ch) ELSE s

\* s[i:i + 2] with Python's 0-based index i
Slice2(s, i) == SubSeq(s, i + 1, i + 2)

\* tuple(int(color.lstrip('#')[i:i + 2], 16) for i in (4, 2, 0))
ColorBGR(color) ==
  LET h == lstrip(color, "#")
  IN  << int16(Slice2(h, 4)), int16(Slice2(h, 2)), int16(Slice2(h, 0)) >>

-----------------------------------------------------------------------------
(* Widget domains: the colour picker, the two sliders, the uploader.       *)

DefaultColor == <<"#","F","F","0","0","0","0">>
Colors == { DefaultColor, <<"#","1","a","2","b","3","c">> }

\* the slider works in steps of 0.01: values are kept in hundredths
DefaultScaleFactor == 110
ScaleFactors == { DefaultScaleFactor, 150 }

DefaultMinNeighbors == 5
MinNeighborsValues == { 1, DefaultMinNeighbors, 10 }

\* Candidate faces of a scene: box <<x, y, w, h>> and the number of raw
\* detections that vote for it at each scale step.
CandA == [box |-> <<10, 40, 30, 30>>, votes |-> [sf \in ScaleFactors |-> IF sf = 110 THEN 7 ELSE 5]]
CandB == [box |-> <<60, 40, 35, 35>>, votes |-> [sf \in ScaleFactors |-> IF sf = 110 THEN 3 ELSE 1]]
CandC == [box |-> <<20, 90, 30, 30>>, votes |-> [sf \in ScaleFactors |-> IF sf = 110 THEN 12 ELSE 10]]
CandD == [box |-> <<80, 100, 20, 20>>, votes |-> [sf \in ScaleFactors |-> 12]]

\* height, width of every picture of the catalogue
ImageShape == <<140, 120>>

\* (x, y) positions at which pixel values are kept: a background pixel, the
\* top-left corners of the boxes of CandA, CandB, CandC, a pixel inside CandA.
SamplePoints == << <<0, 0>>, <<10, 40>>, <<60, 40>>, <<20, 90>>, <<25, 55>> >>
SampleIdx == 1..Len(SamplePoints)

\* The scenes of the RGB pictures: up to MaxFaces distinct candidates, in
\* any order (the detector returns its boxes unordered).
Candidates == { CandA, CandB, CandC, CandD }
Scenes ==
  UNION { { sc \in [1..n -> Candidates] :
              \A i, j \in 1..n : sc[i] = sc[j] => i = j } : n \in 0..MaxFaces }

\* Uploaded files: the PIL mode their picture decodes to ("corrupt": not an
\* image) and the scene they depict.
Files ==
  { [mode |-> "RGB", scene |-> sc] : sc \in Scenes }
  \cup
  { [mode |-> "corrupt", scene |-> <<>>],
    [mode |-> "L",       scene |-> <<CandA>>],
    [mode |-> "L",       scene |-> <<>>],
    [mode |-> "RGBA",    scene |-> <<CandA>>],
    [mode |-> "RGBA",    scene |-> <<>>],
    [mode |-> "LA",      scene |-> <<CandA>>],
    [mode |-> "I;16",    scene |-> <<CandA>>] }

-----------------------------------------------------------------------------
(* PIL, numpy and OpenCV calls of the script, at the sample positions.     *)

\* channel values of the decoded picture at sample k
SourcePixel(mode, k) ==
  CASE mode = "L"    -> << 90 + k >>
    [] mode = "I;16" -> << 1000 + k >>
    [] mode = "LA"   -> << 90 + k, 255 >>
    [] mode = "RGB"  -> << 200 - 10 * k, 120 + k, 40 + 2 * k >>
    [] mode = "RGBA" -> << 200 - 10 * k, 120 + k, 40 + 2 * k, 255 >>

\* Image.open(uploaded_file) raises for a file that is no image
Image_open_raises(file) == file.mode = "corrupt"

Image_open(file) ==
  [mode |-> file.mode,
   px |-> [k \in SampleIdx |-> SourcePixel(file.mode, k)],
   scene |-> file.scene]

\* np.array(image): (H, W) for one band, (H, W, C) otherwise
np_array(image) ==
  [shape |-> CASE image.mode \in {"L", "I;16"} -> ImageShape
               [] image.mode = "LA"   -> ImageShape \o <<2>>
               [] image.mode = "RGB"  -> ImageShape \o <<3>>
               [] image.mode = "RGBA" -> ImageShape \o <<4>>,
   dtype |-> IF image.mode = "I;16" THEN "uint16" ELSE "uint8",
   px |-> image.px,
   scene |-> image.scene]

\* cv2's fixed-point luma: (R*4899 + G*9617 + B*1868 + 2^13) >> 14
Luma(r, g, b) == (r * 4899 + g * 9617 + b * 1868 + 8192) \div 16384

\* cv2.cvtColor rejects an input whose channel count the code does not take
cvtColor_raises(a, code) ==
  CASE code = "GRAY2RGB" -> Len(a.shape) # 2
    [] OTHER -> ~(Len(a.shape) = 3 /\ a.shape[3] \in {3, 4})

cvtColor(a, code) ==
  CASE code = "RGB2GRAY" ->
         [a EXCEPT !.shape = SubSeq(a.shape, 1, 2),
                   !.px = [k \in SampleIdx |->
                             << Luma(a.px[k][1], a.px[k][2], a.px[k][3]) >>]]
    [] code = "GRAY2RGB" ->
         [a EXCEPT !.shape = a.shape \o <<3>>,
                   !.px = [k \in SampleIdx |->
                             << a.px[k][1], a.px[k][1], a.px[k][1] >>]]
    [] code = "BGR2RGB" ->
         [a EXCEPT !.shape = SubSeq(a.shape, 1, 2) \o <<3>>,
                   !.px = [k \in SampleIdx |->
                             << a.px[k][3], a.px[k][2], a.px[k][1] >>]]

\* the cascade takes 8-bit input only
detectMultiScale_raises(gray) == gray.dtype # "uint8"

\* face_cascade.detectMultiScale(gray, scaleFactor, minNeighbors, minSize):
\* the candidates of the scene at least minSize large that collect at least
\* minNeighbors votes at this scale step, in the scene's order
detectMultiScale(gray, scaleFactor, minNeighbors, minSize) ==
  LET kept(c) == /\ c.votes[scaleFactor] >= minNeighbors
                 /\ c.box[3] >= minSize /\ c.box[4] >= minSize
      found == SelectSeq(gray.scene, kept)
  IN  [i \in 1..Len(found) |-> found[i].box]

\* a pixel on the outline, thickness wide, of the rectangle pt1..pt2
OnOutline(p, pt1, pt2, thickness) ==
  LET half == thickness \div 2
      outer == /\ pt1[1] - half <= p[1] /\ p[1] <= pt2[1] + half
               /\ pt1[2] - half <= p[2] /\ p[2] <= pt2[2] + half
      inner == /\ pt1[1] + half < p[1] /\ p[1] < pt2[1] - half
               /\ pt1[2] + half < p[2] /\ p[2] < pt2[2] - half
  IN  outer /\ ~inner

\* cv2's Scalar: the colour tuple padded with zeros to the channel count
Scalar(color, channels) ==
  [c \in 1..channels |-> IF c <= Len(color) THEN color[c] ELSE 0]

\* cv2.rectangle(img, pt1, pt2, color, thickness), in place
rectangle(img, pt1, pt2, color, thickness) ==
  [img EXCEPT !.px = [k \in SampleIdx |->
     IF OnOutline(SamplePoints[k], pt1, pt2, thickness)
     THEN Scalar(color, img.shape[3])
     ELSE img.px[k]]]

\* Image.fromarray(a): the mode follows the array's shape
Image_fromarray(a) ==
  [mode |-> CASE Len(a.shape) = 2 -> "L"
              [] a.shape[3] = 3 -> "RGB"
              [] a.shape[3] = 4 -> "RGBA",
   px |-> a.px,
   scene |-> a.scene]

\* PIL's JPEG writer has no raw mode for pictures with an alpha band
save_raises(pil, format) == format = "JPEG" /\ pil.mode \notin {"L", "RGB"}

\* buf.getvalue() after result_pil.save(buf, format, quality): the bytes,
\* kept as the picture handed to the encoder
save(pil, format, quality) ==
  [format |-> format, quality |-> quality, mode |-> pil.mode, px |-> pil.px]

\* len([f for f in faces if f[1] <= y])
LabelNumber_Strict(faces, box) ==
  Cardinality({i \in 1..Len(faces) : faces[i][2] < box[2]})

LabelNumber_ByX(faces, box) ==
  Cardinality({i \in 1..Len(faces) : faces[i][1] <= box[1]})

LabelNumber(faces, box) ==
  Cardinality({i \in 1..Len(faces) : faces[i][2] <= box[2]})

\* f'Visage {n}'
LabelText(n) == "Visage " \o ToString(n)

\* f"visages_detectes_{n}_faces.jpg"
FileName_Index(n) == "visages_detectes_" \o ToString(n - 1) \o "_faces.jpg"

FileName(n) == "visages_detectes_" \o ToString(n) \o "_faces.jpg"

-----------------------------------------------------------------------------
(* State.                                                                  *)

VARIABLES
  widgets,         \* per session: the values the widgets hold
  cascade_exists,  \* per session: os.path.exists(cascade_path) in this run
  pc,              \* per session: the place the script has reached
  local,           \* per session: main()'s local variables in this run
  ui,              \* per session: what this run has put on the page
  hist             \* per session: history (reruns so far, did the last fail)

vars == << widgets, cascade_exists, pc, local, ui, hist >>

\* widget defaults: color_picker "#FF0000", sliders 1.1 and 5, no file
DefaultWidgets ==
  [color |-> DefaultColor, scaleFactor |-> DefaultScaleFactor,
   minNeighbors |-> DefaultMinNeighbors, uploaded_file |-> None]

\* main()'s locals at entry: nothing bound, nothing drawn
NoLocals ==
  [color_bgr |-> None, image |-> None, img_array |-> None, gray |-> None,
   detected |-> FALSE, faces |-> <<>>, result_img |-> None, idx |-> 0,
   rects |-> <<>>, labels |-> <<>>, byte_im |-> None, exc |-> None]

\* the page at the start of a run
BlankPage ==
  [title |-> FALSE, controls |-> FALSE, messages |-> <<>>, original |-> None,
   dims |-> None, result |-> None, count |-> None, download |-> None,
   footer |-> FALSE]

Msg(level, id, args) == [level |-> level, id |-> id, args |-> args]

Shows(s, id) == \E i \in 1..Len(ui[s].messages) : ui[s].messages[i].id = id

\* Session 1 opens with the defaults and its first run about to start;
\* session 2 is not open yet.
Init ==
  /\ widgets \in [Sessions -> {DefaultWidgets}]
  /\ cascade_exists \in [Sessions -> BOOLEAN]
  /\ cascade_exists[2] = TRUE
  /\ pc = [s \in Sessions |-> IF s = 1 THEN "start" ELSE "off"]
  /\ local = [s \in Sessions |-> NoLocals]
  /\ ui = [s \in Sessions |-> BlankPage]
  /\ hist = [s \in Sessions |-> [runs |-> 0, prev_failed |-> FALSE]]

-----------------------------------------------------------------------------
(* One run of main(), step by step.                                        *)

Goto(s, label) == pc' = [pc EXCEPT ![s] = label]

Say(s, m) == [ui[s] EXCEPT !.messages = Append(@, m)]

\* an exception inside the try block: control passes to the except clause
Raise(s, text) ==
  /\ Goto(s, "except")
  /\ local' = [local EXCEPT ![s].exc = Some(text)]
  /\ UNCHANGED << widgets, cascade_exists, ui, hist >>

\* st.set_page_config, st.title, the instructions
PageHeader(s) ==
  /\ pc[s] = "start"
  /\ ui' = [ui EXCEPT ![s].title = TRUE]
  /\ Goto(s, "check")
  /\ UNCHANGED << widgets, cascade_exists, local, hist >>

\* if not os.path.exists(cascade_path): st.error(...); st.stop()
CheckCascade_NoStop(s) ==
  /\ pc[s] = "check"
  /\ IF cascade_exists[s]
     THEN UNCHANGED ui
     ELSE ui' = [ui EXCEPT ![s] = Say(s, Msg("error", "cascade_missing", <<>>))]
  /\ Goto(s, "controls")
  /\ UNCHANGED << widgets, cascade_exists, local, hist >>

CheckCascade(s) ==
  /\ pc[s] = "check"
  /\ IF cascade_exists[s]
     THEN /\ Goto(s, "controls")
          /\ UNCHANGED ui
     ELSE /\ ui' = [ui EXCEPT ![s] = Say(s, Msg("error", "cascade_missing", <<>>))]
          /\ Goto(s, "stopped")
  /\ UNCHANGED << widgets, cascade_exists, local, hist >>

\* the sidebar (color picker, two sliders), the uploader, color_bgr
Controls(s) ==
  /\ pc[s] = "controls"
  /\ ui' = [ui EXCEPT ![s].controls = TRUE]
  /\ local' = [local EXCEPT ![s].color_bgr = Some(ColorBGR(widgets[s].color))]
  /\ Goto(s, IF widgets[s].uploaded_file # None THEN "open" ELSE "no_upload")
  /\ UNCHANGED << widgets, cascade_exists, hist >>

\* else: st.info("Veuillez telecharger une image ...")
NoUpload(s) ==
  /\ pc[s] = "no_upload"
  /\ ui' = [ui EXCEPT ![s] = Say(s, Msg("info", "upload_please", <<>>))]
  /\ Goto(s, "footer")
  /\ UNCHANGED << widgets, cascade_exists, local, hist >>

\* image = Image.open(uploaded_file); img_array = np.array(image)
Decode(s) ==
  /\ pc[s] = "open"
  /\ LET file == Get(widgets[s].uploaded_file)
     IN  IF Image_open_raises(file)
         THEN Raise(s, "cannot identify image file")
         ELSE /\ local' = [local EXCEPT
                   ![s].image = Some(Image_open(file)),
                   ![s].img_array = Some(np_array(Image_open(file)))]
              /\ Goto(s, "gray")
              /\ UNCHANGED << widgets, cascade_exists, ui, hist >>

\* gray = cvtColor(img_array, RGB2GRAY) if len(shape) == 3 else img_array
ToGray(s) ==
  /\ pc[s] = "gray"
  /\ LET a == Get(local[s].img_array)
     IN  IF Len(a.shape) = 3
         THEN IF cvtColor_raises(a, "RGB2GRAY")
              THEN Raise(s, "cvtColor: invalid number of channels")
              ELSE /\ local' = [local EXCEPT
                        ![s].gray = Some(cvtColor(a, "RGB2GRAY"))]
                   /\ Goto(s, "original")
                   /\ UNCHANGED << widgets, cascade_exists, ui, hist >>
         ELSE /\ local' = [local EXCEPT ![s].gray = Some(a)]
              /\ Goto(s, "original")
              /\ UNCHANGED << widgets, cascade_exists, ui, hist >>

\* col1: st.image(image); st.write("Dimensions : W x H pixels")
ShowOriginal(s) ==
  /\ pc[s] = "original"
  /\ LET a == Get(local[s].img_array)
     IN  ui' = [ui EXCEPT ![s].original = local[s].image,
                          ![s].dims = Some(<< a.shape[2], a.shape[1] >>)]
  /\ Goto(s, "detect")
  /\ UNCHANGED << widgets, cascade_exists, local, hist >>

\* faces = face_cascade.detectMultiScale(gray, scaleFactor, minNeighbors,
\*                                       minSize=(30, 30))
Detect(s) ==
  /\ pc[s] = "detect"
  /\ LET gray == Get(local[s].gray)
     IN  IF detectMultiScale_raises(gray)
         THEN Raise(s, "detectMultiScale: unsupported depth")
         ELSE /\ local' = [local EXCEPT
                   ![s].detected = TRUE,
                   ![s].faces = detectMultiScale(gray, widgets[s].scaleFactor,
                                  widgets[s].minNeighbors, MinSize)]
              /\ Goto(s, "copy")
              /\ UNCHANGED << widgets, cascade_exists, ui, hist >>

\* result_img = img_array.copy(); the for loop starts
CopyImage(s) ==
  /\ pc[s] = "copy"
  /\ local' = [local EXCEPT ![s].result_img = local[s].img_array,
                            ![s].idx = 1]
  /\ Goto(s, "annotate")
  /\ UNCHANGED << widgets, cascade_exists, ui, hist >>

\* one iteration of: for (x, y, w, h) in faces
DrawFace(s) ==
  /\ pc[s] = "annotate"
  /\ local[s].idx <= Len(local[s].faces)
  /\ LET faces == local[s].faces
         box == faces[local[s].idx]
         x == box[1]
         y == box[2]
         w == box[3]
         h == box[4]
         color_bgr == Get(local[s].color_bgr)
         img0 == Get(local[s].result_img)
         img1 == IF Len(img0.shape) = 2 THEN cvtColor(img0, "GRAY2RGB") ELSE img0
         img2 == rectangle(img1, <<x, y>>, <<x + w, y + h>>, color_bgr,
                           RectThickness)
         rect == [pt1 |-> <<x, y>>, pt2 |-> <<x + w, y + h>>,
                  color |-> color_bgr, thickness |-> RectThickness]
         label == [text |-> LabelText(LabelNumber(faces, box)),
                   org |-> <<x, y - LabelOffset>>,
                   color |-> color_bgr, thickness |-> TextThickness]
     IN  local' = [local EXCEPT ![s].result_img = Some(img2),
                                ![s].rects = Append(@, rect),
                                ![s].labels = Append(@, label),
                                ![s].idx = @ + 1]
  /\ UNCHANGED << widgets, cascade_exists, pc, ui, hist >>

\* col2: st.image(result_img); st.write(count); st.info or st.warning
ShowResult(s) ==
  /\ pc[s] = "annotate"
  /\ local[s].idx > Len(local[s].faces)
  /\ LET n == Len(local[s].faces)
         m == IF n > 0
              THEN Msg("info", "results",
                       << n, widgets[s].color, widgets[s].scaleFactor,
                          widgets[s].minNeighbors >>)
              ELSE Msg("warning", "no_face", <<>>)
     IN  ui' = [ui EXCEPT ![s] =
                  [Say(s, m) EXCEPT !.result = local[s].result_img,
                                    !.count = Some(n)]]
  /\ Goto(s, "save")
  /\ UNCHANGED << widgets, cascade_exists, local, hist >>

\* if len(faces) > 0: convert result_img, save it as JPEG into buf
Encode(s) ==
  /\ pc[s] = "save"
  /\ Len(local[s].faces) > 0
  /\ LET result_img == Get(local[s].result_img)
         result_pil ==
           IF Len(result_img.shape) = 3 /\ result_img.shape[3] = 3
           THEN Image_fromarray(cvtColor(result_img, "BGR2RGB"))
           ELSE Image_fromarray(result_img)
     IN  IF save_raises(result_pil, "JPEG")
         THEN Raise(s, "cannot write mode " \o result_pil.mode \o " as JPEG")
         ELSE /\ local' = [local EXCEPT ![s].byte_im =
                             Some(save(result_pil, "JPEG", JpegQuality))]
              /\ Goto(s, "download")
              /\ UNCHANGED << widgets, cascade_exists, ui, hist >>

\* st.download_button(data=byte_im, file_name=...); st.success(...)
OfferDownload(s) ==
  /\ pc[s] = "download"
  /\ LET button == [data |-> Get(local[s].byte_im),
                    file_name |-> FileName(Len(local[s].faces)),
                    mime |-> "image/jpeg"]
     IN  ui' = [ui EXCEPT ![s] =
                  [Say(s, Msg("success", "ready", <<>>)) EXCEPT
                     !.download = Some(button)]]
  /\ Goto(s, "footer")
  /\ UNCHANGED << widgets, cascade_exists, local, hist >>

\* else: st.error("Aucun visage detecte - impossible de telecharger ...")
NoFaces(s) ==
  /\ pc[s] = "save"
  /\ Len(local[s].faces) = 0
  /\ ui' = [ui EXCEPT ![s] = Say(s, Msg("error", "no_download", <<>>))]
  /\ Goto(s, "footer")
  /\ UNCHANGED << widgets, cascade_exists, local, hist >>

\* except Exception as e: st.error(f"Erreur lors du traitement ... {e}")
HandleException_Halt(s) ==
  /\ pc[s] = "except"
  /\ ui' = [ui EXCEPT ![s] =
              Say(s, Msg("error", "processing", local[s].exc))]
  /\ Goto(s, "stopped")
  /\ UNCHANGED << widgets, cascade_exists, local, hist >>

HandleException(s) ==
  /\ pc[s] = "except"
  /\ ui' = [ui EXCEPT ![s] =
              Say(s, Msg("error", "processing", local[s].exc))]
  /\ Goto(s, "footer")
  /\ UNCHANGED << widgets, cascade_exists, local, hist >>

\* the footer; main() returns
Footer(s) ==
  /\ pc[s] = "footer"
  /\ ui' = [ui EXCEPT ![s].footer = TRUE]
  /\ Goto(s, "done")
  /\ UNCHANGED << widgets, cascade_exists, local, hist >>

-----------------------------------------------------------------------------
(* Interactions: each one makes Streamlit run main() again from the top.   *)

Finished(s) == pc[s] \in {"done", "stopped"}

\* main() is entered with fresh locals
FreshLocals_Kept(s) == local[s]

FreshLocals(s) == NoLocals

\* if __name__ == "__main__": main(), with the widget values w
StartRun(s, w) ==
  /\ Finished(s)
  /\ hist[s].runs < MaxRuns
  /\ widgets' = [widgets EXCEPT ![s] = w]
  /\ \E exists \in BOOLEAN :
       cascade_exists' = [cascade_exists EXCEPT ![s] = exists]
  /\ local' = [local EXCEPT ![s] = FreshLocals(s)]
  /\ ui' = [ui EXCEPT ![s] = BlankPage]
  /\ hist' = [hist EXCEPT ![s] = [runs |-> @.runs + 1,
                                  prev_failed |-> Shows(s, "processing")]]
  /\ Goto(s, "start")

ChangeColor(s, c) ==
  /\ ui[s].controls
  /\ c # widgets[s].color
  /\ StartRun(s, [widgets[s] EXCEPT !.color = c])

ChangeScaleFactor(s, sf) ==
  /\ ui[s].controls
  /\ sf # widgets[s].scaleFactor
  /\ StartRun(s, [widgets[s] EXCEPT !.scaleFactor = sf])

ChangeMinNeighbors(s, mn) ==
  /\ ui[s].controls
  /\ mn # widgets[s].minNeighbors
  /\ StartRun(s, [widgets[s] EXCEPT !.minNeighbors = mn])

Upload(s, f) ==
  /\ ui[s].controls
  /\ widgets[s].uploaded_file # Some(f)
  /\ StartRun(s, [widgets[s] EXCEPT !.uploaded_file = Some(f)])

ClearUpload(s) ==
  /\ ui[s].controls
  /\ widgets[s].uploaded_file # None
  /\ StartRun(s, [widgets[s] EXCEPT !.uploaded_file = None])

\* a click on the download button also reruns the script
ClickDownload(s) ==
  /\ ui[s].download # None
  /\ StartRun(s, widgets[s])

\* "Rerun" from Streamlit's menu
RerunScript(s) ==
  /\ Finished(s)
  /\ StartRun(s, widgets[s])

\* the browser reloads the page: a new session state, the defaults again
Reload(s) ==
  /\ Finished(s)
  /\ StartRun(s, DefaultWidgets)

-----------------------------------------------------------------------------
(* Specifications.                                                         *)

RunStep(s) ==
  \/ PageHeader(s)
  \/ CheckCascade(s)
  \/ Controls(s)
  \/ NoUpload(s)
  \/ Decode(s)
  \/ ToGray(s)
  \/ ShowOriginal(s)
  \/ Detect(s)
  \/ CopyImage(s)
  \/ DrawFace(s)
  \/ ShowResult(s)
  \/ Encode(s)
  \/ OfferDownload(s)
  \/ NoFaces(s)
  \/ HandleException(s)
  \/ Footer(s)

Interact(s) ==
  \/ \E c \in Colors : ChangeColor(s, c)
  \/ \E sf \in ScaleFactors : ChangeScaleFactor(s, sf)
  \/ \E mn \in MinNeighborsValues : ChangeMinNeighbors(s, mn)
  \/ \E f \in Files : Upload(s, f)
  \/ ClearUpload(s)
  \/ ClickDownload(s)
  \/ RerunScript(s)
  \/ Reload(s)

\* one session
Next == RunStep(1) \/ Interact(1)

Spec == Init /\ [][Next]_vars

\* A second browser session is opened once the first has been through its
\* MaxRuns reruns; its user sets the widgets to the values the first holds.
OpenSecond ==
  /\ pc[2] = "off"
  /\ Finished(1)
  /\ hist[1].runs = MaxRuns
  /\ \E exists \in BOOLEAN :
       cascade_exists' = [cascade_exists EXCEPT ![2] = exists]
  /\ Goto(2, "start")
  /\ UNCHANGED << widgets, local, ui, hist >>

Follow ==
  \/ ChangeColor(2, widgets[1].color)
  \/ ChangeScaleFactor(2, widgets[1].scaleFactor)
  \/ ChangeMinNeighbors(2, widgets[1].minNeighbors)
  \/ (widgets[1].uploaded_file # None /\ Upload(2, Get(widgets[1].uploaded_file)))

NextPair == Next \/ OpenSecond \/ RunStep(2) \/ Follow

SpecPair == Init /\ [][NextPair]_vars

-----------------------------------------------------------------------------
(* Properties.                                                             *)

Live == {s \in Sessions : pc[s] # "off"}

HasUpload(s) == widgets[s].uploaded_file # None

NFaces(s) == Len(local[s].faces)

Offered(s) == ui[s].download # None

\* (RR, GG, BB) of the colour picker's "#RRGGBB"
HexRGB(color) ==
  << int16(SubSeq(color, 2, 3)), int16(SubSeq(color, 4, 5)),
     int16(SubSeq(color, 6, 7)) >>

\* the number a drawn label carries
LabelN(s, i) ==
  CHOOSE n \in 0..(NFaces(s) + 1) :
    local[s].labels[i].text = "Visage " \o ToString(n)

\* C1 (as claimed): in a finished run on a grayscale, RGB or RGBA picture the
\* download button is offered exactly when the detector returned at least
\* one box, and with no box the "no download" message is shown instead.
C1_DownloadIffFaces ==
  \A s \in Live :
    (/\ pc[s] = "done"
     /\ HasUpload(s)
     /\ Get(widgets[s].uploaded_file).mode \in {"L", "RGB", "RGBA"})
    => /\ Offered(s) <=> (local[s].detected /\ NFaces(s) >= 1)
       /\ NFaces(s) = 0 => (~Offered(s) /\ Shows(s, "no_download"))

\* C2 (as claimed): an offered download is named
\* faces_detected_{count}_faces.jpg, count being the number of boxes.
C2_FacesDetectedName ==
  \A s \in Live :
    Offered(s) =>
      Get(ui[s].download).file_name =
        "faces_detected_" \o ToString(NFaces(s)) \o "_faces.jpg"

\* C2 (amended): an offered download is named
\* visages_detectes_{count}_faces.jpg, where count is the number of boxes the
\* detector returned in that run, which is also the number displayed and the
\* number of rectangles drawn.
C2_FileNameHasCount ==
  \A s \in Live :
    Offered(s) =>
      /\ Get(ui[s].download).file_name =
           "visages_detectes_" \o ToString(NFaces(s)) \o "_faces.jpg"
      /\ ui[s].count = Some(NFaces(s))
      /\ Len(local[s].rects) = NFaces(s)

C2_Witness ==
  \E s \in Live : Offered(s) /\ NFaces(s) >= 2 /\ pc[s] = "done"

\* C3: while the cascade file is missing the run gets no further than the
\* check: the error is reported, the script is stopped, and neither the
\* controls nor the uploader are rendered, no detection runs and no download
\* is offered.
C3_MissingModelHalts ==
  \A s \in Live :
    ~cascade_exists[s] =>
      /\ pc[s] \in {"start", "check", "stopped"}
      /\ pc[s] = "stopped" => Shows(s, "cascade_missing")
      /\ ~ui[s].controls
      /\ ~local[s].detected
      /\ ~Offered(s)

C3_Witness ==
  \E s \in Live :
    pc[s] = "stopped" /\ ~cascade_exists[s] /\ HasUpload(s) /\ hist[s].runs >= 2

\* C4: an exception raised in the try block is caught and shown as the
\* processing error; that run yields no encoded bytes and no download button,
\* the script goes on to its footer and ends with the controls on the page;
\* a later run that raises nothing is carried through as usual.
C4_ExceptionCaught ==
  \A s \in Live :
    /\ local[s].exc # None =>
         /\ pc[s] \in {"except", "footer", "done"}
         /\ local[s].byte_im = None
         /\ ~Offered(s)
         /\ ui[s].controls
         /\ pc[s] # "except" => Shows(s, "processing")
    /\ Shows(s, "processing") => local[s].exc # None
    /\ pc[s] = "done" => ui[s].footer
    /\ (pc[s] = "done" /\ hist[s].prev_failed /\ HasUpload(s)
          /\ local[s].exc = None) =>
         /\ ui[s].result # None
         /\ Offered(s) <=> NFaces(s) >= 1

C4_Witness ==
  \E s \in Live :
    /\ pc[s] = "done" /\ Shows(s, "processing") /\ hist[s].prev_failed
    /\ local[s].exc = Some("cannot write mode RGBA as JPEG")

\* C5 (as claimed): a finished run on an uploaded file ends in exactly one
\* of the two outcomes: the annotated image is displayed, or the processing
\* error is shown, never both.
C5_ExactlyOneOutcome ==
  \A s \in Live :
    (pc[s] = "done" /\ HasUpload(s)) =>
      ((ui[s].result # None) <=> ~Shows(s, "processing"))

\* C6 (as claimed): the label of every box reads "Face N", N the number of
\* boxes of the run whose y is at most the box's y.
C6_FaceLabel ==
  \A s \in Live :
    \A i \in 1..Len(local[s].labels) :
      local[s].labels[i].text =
        "Face " \o ToString(Cardinality(
          {j \in 1..NFaces(s) : local[s].faces[j][2] <= local[s].faces[i][2]}))

\* C6 (amended): the label drawn for the i-th box reads "Visage N", N the
\* number of boxes of the run whose y is at most that box's y, so that
\* 1 <= N <= number of boxes; it is put 10 pixels above the box's corner.
C6_VisageLabel ==
  \A s \in Live :
    /\ Len(local[s].labels) <= NFaces(s)
    /\ \A i \in 1..Len(local[s].labels) :
         LET box == local[s].faces[i]
             N == Cardinality(
                    {j \in 1..NFaces(s) : local[s].faces[j][2] <= box[2]})
         IN  /\ local[s].labels[i].text = "Visage " \o ToString(N)
             /\ local[s].labels[i].org = << box[1], box[2] - 10 >>
             /\ 1 <= N /\ N <= NFaces(s)

C6_Witness ==
  \E s \in Live : pc[s] = "done" /\ Len(local[s].labels) = 3

\* the samples that rectangle i of the run colours
RectSamples(s, i) ==
  LET r(j) == local[s].rects[j]
      on(j, k) == OnOutline(SamplePoints[k], r(j).pt1, r(j).pt2, r(j).thickness)
  IN  {k \in SampleIdx : on(i, k)}

\* C7 (as claimed): on the annotated image shown to the user every rectangle
\* and label has the RGB value (RR, GG, BB) of the chosen colour "#RRGGBB",
\* the rectangle with line width 3.
C7_ChosenColorShown ==
  \A s \in Live :
    ui[s].result # None =>
      /\ \A i \in 1..Len(local[s].rects) :
           /\ local[s].rects[i].thickness = 3
           /\ \A k \in RectSamples(s, i) :
                SubSeq(Get(ui[s].result).px[k], 1, 3) = HexRGB(widgets[s].color)
      /\ \A i \in 1..Len(local[s].labels) :
           local[s].labels[i].color = HexRGB(widgets[s].color)

\* C8 (as claimed): the picture handed to the JPEG encoder has, at every
\* pixel, the channel values of the annotated image shown to the user.
C8_DownloadIsShownImage ==
  \A s \in Live :
    Offered(s) =>
      \A k \in SampleIdx :
        Get(ui[s].download).data.px[k] = Get(ui[s].result).px[k]

\* what the detector returns over all files and parameter values
DetectionResults ==
  { detectMultiScale(np_array(Image_open(f)), sf, mn, MinSize) :
      f \in {g \in Files : g.mode \in {"L", "RGB", "RGBA"}},
      sf \in ScaleFactors, mn \in MinNeighborsValues }

\* C9 (as claimed): once a run has labelled its boxes, there is a detection
\* result in which two boxes with different y get the same number, or in
\* which the box with the larger y gets the smaller number.
C9_NonMonotoneExists ==
  (\E s \in Live : pc[s] = "done" /\ Len(local[s].labels) >= 2) =>
    \E fs \in DetectionResults :
      \E i, j \in 1..Len(fs) :
        /\ fs[i][2] < fs[j][2]
        /\ LabelNumber(fs, fs[i]) >= LabelNumber(fs, fs[j])

\* C9 (amended): the numbering is not a rank only because of ties: boxes
\* with equal y get the same number (so a number is used twice and another
\* skipped), while boxes with different y always get different numbers, the
\* lower box (larger y) the larger one.
C9_TiesOnlyDuplicates ==
  \A s \in Live :
    \A i, j \in 1..Len(local[s].labels) :
      /\ local[s].faces[i][2] < local[s].faces[j][2] => LabelN(s, i) < LabelN(s, j)
      /\ local[s].faces[i][2] = local[s].faces[j][2] => LabelN(s, i) = LabelN(s, j)

C9_Witness ==
  \E s \in Live :
    /\ pc[s] = "done"
    /\ Len(local[s].labels) = 3
    /\ \E i, j \in 1..3 :
         /\ i # j
         /\ local[s].faces[i][2] = local[s].faces[j][2]
         /\ local[s].labels[i].text = local[s].labels[j].text
    /\ {LabelN(s, i) : i \in 1..3} # 1..3

\* what a session's user has set, and what its finished run has produced
Inputs(s) == << widgets[s], cascade_exists[s] >>
Outcome(s) == << pc[s], ui[s], local[s] >>

\* C10: two sessions with different histories whose current widget values
\* (and cascade file) are the same end their runs with the same outcome:
\* boxes, labels, images, messages, download and file name.
C10_OutcomeFromInputsOnly ==
  (Finished(1) /\ Finished(2) /\ Inputs(1) = Inputs(2)) =>
    Outcome(1) = Outcome(2)

C10_Witness ==
  /\ Finished(1) /\ Finished(2) /\ Inputs(1) = Inputs(2)
  /\ hist[1].prev_failed /\ ~hist[2].prev_failed
  /\ hist[1].runs > hist[2].runs
  /\ Offered(1)

=============================================================================
